---- MODULE Spec2Model ----
(***************************************************************************)
(* RateCaster backend (src/backend-service.ts): the review-event ingestion *)
(* pipeline, the aggregate cache, the bulk load, the progression engine    *)
(* (tasks, points, streak) and the durable review listener with backoff.   *)
(*                                                                         *)
(* Node runs one callback at a time, so every action below is one          *)
(* synchronous segment of the code: it starts where a callback is entered  *)
(* or an await resumes and ends at the next await.  Handler runs are not   *)
(* awaited by the subscription callback (line 560), so the segments of     *)
(* different runs interleave freely.                                       *)
(*                                                                         *)
(* Units: averageRating is held in hundredths (433 is 4.33); timestamps    *)
(* and delays of the progression engine are in hours, backoff delays in    *)
(* milliseconds.                                                           *)
(***************************************************************************)
EXTENDS Integers, Sequences, FiniteSets, TLC

\* ------------------------------------------------------------------ bounds

\* Handler runs (deliveries of an event to the subscription callback).
MaxRuns == 2

\* The clock stops at this hour.
MaxNow == 78

\* Writes of the profile file in flight at once.
MaxPending == 2

\* The points a profile holds at most.
MaxPoints == 40

\* Rows of the durable review table at a bulk load.
MaxRows == 3

\* Entity shells the ledger returns to a bulk load.
MaxShells == 2

\* Consecutive failed subscribe attempts.
MaxAttempts == 7

\* Callbacks the event source holds at once.
MaxHandlers == 2

\* Times the process is stopped and started again.
MaxRestarts == 1

\* The highest reviewStreak a stored profile starts with.
MaxStreak == 2

\* ------------------------------------------------------------ value spaces

\* Entity ids as the ledger, the durable rows and the events spell them.
DappIds == {"d1", "d2", "D1"}

\* String.prototype.toLowerCase on an entity id.
Lower(id) == IF id = "D1" THEN "d1" ELSE id

\* The name the ledger holds for an entity.
NameOf(id) == IF Lower(id) = "d1" THEN "Alpha" ELSE "Beta"

UnknownDapp == "Unknown Dapp"

\* Rater addresses (already lower-case).
Users == {"u1", "u2"}

\* The users whose wallet-connected requests are drawn.
LoginUsers == {"u1"}

Runs == 1..MaxRuns

\* The events the upstream source can deliver, redelivery included.  tx1 is
\* for an entity the bulk load caches, tx2 and tx3 are for one it does not.
EventPool ==
    { [id |-> "tx1", dappId |-> "d1", starRating |-> 5, rater |-> "u1",
       hasText |-> TRUE, timestamp |-> 7],
      [id |-> "tx2", dappId |-> "d2", starRating |-> 4, rater |-> "u1",
       hasText |-> TRUE, timestamp |-> 0],
      [id |-> "tx3", dappId |-> "d2", starRating |-> 2, rater |-> "u2",
       hasText |-> FALSE, timestamp |-> 9] }

\* Events the code accepts although they are malformed: a rating outside 1..5,
\* and an event without a rater address.
MalformedEvents ==
    { [id |-> "tx4", dappId |-> "d2", starRating |-> 7, rater |-> "u2",
       hasText |-> FALSE, timestamp |-> 4],
      [id |-> "tx5", dappId |-> "d1", starRating |-> 3, rater |-> "none",
       hasText |-> FALSE, timestamp |-> 3] }

NoEvent == [id |-> "none", dappId |-> "d1", starRating |-> 0, rater |-> "u1",
            hasText |-> FALSE, timestamp |-> 0]

\* Rows of the etherscan_reviews table when the process starts.
InitialRows ==
    << [txHash |-> "r1", dappId |-> "D1", starRating |-> 4, fromAddress |-> "u2",
        hasText |-> TRUE, blockNumber |-> 5],
       [txHash |-> "r2", dappId |-> "d1", starRating |-> 4, fromAddress |-> "u1",
        hasText |-> FALSE, blockNumber |-> 8] >>

\* What sdk.getAllDapps returns at startup: d2 is registered later.
InitialShells == << [dappId |-> "D1", name |-> "Alpha"] >>

VARIABLES
    dappsStore,             \* line 47: sequence of entity projections
    reviewsByDappStore,     \* line 48: entity id -> sequence of reviews
    allReviewsStore,        \* line 49: sequence of reviews
    taskDefinitionsStore,   \* line 50
    userTaskProgressStore,  \* line 51: user -> taskId -> progress entry
    userProfilesDB,         \* line 53: user -> profile
    dbRows,                 \* the etherscan_reviews table (REVIEW_DB_PATH)
    run,                    \* the processNewReview runs, one record per run
    refresh,                \* the refresh-dapp-from-chain request in flight
    login,                  \* user -> the wallet-connected request in flight
    now,                    \* Date.now(), in hours
    tz,                     \* the server's local time zone
    awardLog,               \* history: task awards per user, task and UTC day
    isListenerRunning,      \* line 60
    wsProviderInitialized,  \* line 56
    reconnectAttempts,      \* line 544
    connectPc,              \* where startReviewListener / connect stands
    handlers,               \* callbacks registered with the event source
    retryDelay,             \* delay of the pending setTimeout(connect), 0 if none
    lastDelay,              \* history: last delay scheduled since an event arrived
    phase,                  \* where startBackendApplication stands
    shutdown,               \* where gracefulShutdown stands
    restarts,               \* history: how often the process was started again
    loadedShells,           \* history: what getAllDapps returned to the bulk load
    profileFile,            \* the content of the user-profile file (DB_FILE_PATH)
    pendingSaves            \* snapshots handed to fs.writeFile and not yet written

\* The profile file is followed by the steps of the persistence spec; the
\* steps of the other specs fold their saves and leave it aside.
fileVars == << profileFile, pendingSaves >>

vars == << dappsStore, reviewsByDappStore, allReviewsStore, taskDefinitionsStore,
           userTaskProgressStore, userProfilesDB, dbRows, run, refresh, login,
           now, tz, fileVars, awardLog, isListenerRunning, wsProviderInitialized, reconnectAttempts,
           connectPc, handlers, retryDelay, lastDelay, phase, shutdown,
           restarts, loadedShells >>

startupVars == << phase, loadedShells, login >>

listenerVars == << isListenerRunning, wsProviderInitialized, reconnectAttempts,
                   connectPc, handlers, retryDelay, lastDelay, shutdown, restarts >>

cacheVars == << dappsStore, reviewsByDappStore, allReviewsStore >>
progressionVars == << userTaskProgressStore, userProfilesDB, awardLog >>

\* ---------------------------------------------------------------- helpers

RECURSIVE SumStars(_)
SumStars(reviews) ==
    IF reviews = << >> THEN 0
    ELSE Head(reviews).starRating + SumStars(Tail(reviews))

\* Number(x.toFixed(2)) of sum / n, in hundredths: the nearest hundredth, the
\* larger one on a tie.
ToFixed2(sum, n) == (200 * sum + n) \div (2 * n)

\* Aggregates in which the latest review alone sets the rating.
calculateDappAggregatesLatestWins(reviewsForThisDapp) ==
    LET totalReviews == Len(reviewsForThisDapp)
    IN  [ totalReviews  |-> totalReviews,
          averageRating |-> IF totalReviews > 0
                            THEN 100 * Head(reviewsForThisDapp).starRating
                            ELSE 0 ]

calculateDappAggregates(reviewsForThisDapp) ==
    LET totalReviews == Len(reviewsForThisDapp)
    IN  [ totalReviews  |-> totalReviews,
          averageRating |-> IF totalReviews > 0
                            THEN ToFixed2(SumStars(reviewsForThisDapp), totalReviews)
                            ELSE 0 ]

\* A findIndex whose test holds for every entry.
FindDappIndexFirst(store, id) == IF store # << >> THEN 1 ELSE 0

\* Array.prototype.findIndex(d => d.dappId === id): 0 when there is none.
FindDappIndex(store, id) ==
    IF \E i \in 1..Len(store) : store[i].dappId = id
    THEN CHOOSE i \in 1..Len(store) :
            /\ store[i].dappId = id
            /\ \A j \in 1..(i - 1) : store[j].dappId # id
    ELSE 0

RECURSIVE InsertByTimestamp(_, _)
InsertByTimestamp(x, s) ==
    IF s = << >> THEN << x >>
    ELSE IF Head(s).timestamp >= x.timestamp
         THEN << Head(s) >> \o InsertByTimestamp(x, Tail(s))
         ELSE << x >> \o s

\* Array.prototype.sort((a, b) => b.timestamp - a.timestamp): stable.
RECURSIVE SortByTimestampDesc(_)
SortByTimestampDesc(s) ==
    IF s = << >> THEN << >>
    ELSE InsertByTimestamp(s[Len(s)], SortByTimestampDesc(SubSeq(s, 1, Len(s) - 1)))

\* ------------------------------------------------------------- bulk load

\* A row conversion that keeps the entity id as the row spells it.
RowToReviewAsSpelled(row, shells) ==
    [ id |-> row.txHash, dappId |-> row.dappId, starRating |-> row.starRating,
      rater |-> row.fromAddress, hasText |-> row.hasText,
      timestamp |-> row.blockNumber, dappName |-> UnknownDapp ]

\* Lines 206-227: one review per durable row, keyed by the lower-cased id.
RowToReview(row, shells) ==
    LET key == Lower(row.dappId)
        known == \E i \in 1..Len(shells) : Lower(shells[i].dappId) = key
        \* dappInfoMap.set overwrites: the last shell with that key wins
        info == CHOOSE i \in 1..Len(shells) :
                    /\ Lower(shells[i].dappId) = key
                    /\ \A j \in (i + 1)..Len(shells) : Lower(shells[j].dappId) # key
    IN  [ id |-> row.txHash, dappId |-> key, starRating |-> row.starRating,
          rater |-> row.fromAddress, hasText |-> row.hasText,
          timestamp |-> row.blockNumber,
          dappName |-> IF known THEN shells[info].name ELSE UnknownDapp ]

RECURSIVE RowsToReviews(_, _)
RowsToReviews(rows, shells) ==
    IF rows = << >> THEN << >>
    ELSE << RowToReview(Head(rows), shells) >> \o RowsToReviews(Tail(rows), shells)

ReviewsOfDapp(reviews, key) == SelectSeq(reviews, LAMBDA r : r.dappId = key)

\* Lines 234-247: one projection per shell, aggregates from the new review map.
ShellToDapp(shell, byDapp) ==
    LET key == Lower(shell.dappId)
        aggregates == calculateDappAggregates(byDapp[key])
    IN  [ dappId |-> key, name |-> shell.name,
          totalReviews |-> aggregates.totalReviews,
          averageRating |-> aggregates.averageRating ]

\* The three stores fetchInitialDataFromDb assigns (lines 230, 231, 250).
LoadedStores(shells, rows) ==
    LET newAll == RowsToReviews(rows, shells)
        newByDapp == [ k \in DappIds |-> ReviewsOfDapp(newAll, k) ]
    IN  [ all |-> newAll,
          byDapp |-> newByDapp,
          dapps |-> [ i \in 1..Len(shells) |-> ShellToDapp(shells[i], newByDapp) ] ]

\* ------------------------------------------------------------------ time

\* MS_PER_DAY (line 361), in hours.
HoursPerDay == 24

TimeZones == {"UTC", "FIXED", "DST"}

\* Local time minus UTC at instant ts: none, nine hours, or a zone whose
\* clocks go forward one hour at 01:00 UTC of day 1.
UtcOffset(ts) ==
    CASE tz = "UTC" -> 0
      [] tz = "FIXED" -> 9
      [] OTHER -> IF ts >= HoursPerDay + 1 THEN 1 ELSE 0

\* getUtcDateString (lines 266-268): the UTC calendar day of ts.
getUtcDateString(ts) == ts \div HoursPerDay

\* new Date(ts).setHours(0, 0, 0, 0): the instant of the local midnight that
\* starts the local calendar day of ts.
SetHoursZero(ts) ==
    LET midnight == ((ts + UtcOffset(ts)) \div HoursPerDay) * HoursPerDay
    IN  CHOOSE t \in (midnight - 12)..midnight : t + UtcOffset(t) = midnight

\* ------------------------------------------------------------ progression

POINTS_STREAK_BONUS_PER_DAY == 5

TaskIds == {"login", "rate", "review", "extra"}

\* tasks-definitions.json as loaded at startup.
InitialTasks ==
    << [taskId |-> "login", type |-> "DAILY_LOGIN", cadence |-> "DAILY",
        pointsReward |-> 10, targetCount |-> 1, isActive |-> TRUE],
       [taskId |-> "rate", type |-> "DAILY_RATE_ANY_DAPP", cadence |-> "DAILY",
        pointsReward |-> 15, targetCount |-> 2, isActive |-> TRUE],
       [taskId |-> "review", type |-> "DAILY_REVIEW_ANY_DAPP", cadence |-> "DAILY",
        pointsReward |-> 25, targetCount |-> 1, isActive |-> TRUE] >>

NoProfile == [exists |-> FALSE, points |-> 0, reviewStreak |-> 0,
              lastLoginTimestamp |-> 0, lastReviewTimestamp |-> 0]

\* Lines 285-290: the entry getUserTaskProgress creates on first reference.
NoProgress == [currentCount |-> 0, lastProgressTimestamp |-> 0,
               isCompletedThisPeriod |-> FALSE]

\* Lines 112-125.
getOrCreateUserProfile(profiles, u) ==
    IF profiles[u].exists THEN profiles
    ELSE [profiles EXCEPT ![u] = [NoProfile EXCEPT !.exists = TRUE]]

\* Lines 270-277: the profile's points after the award.
awardPointsAndNotify(profiles, u, points) ==
    [getOrCreateUserProfile(profiles, u) EXCEPT ![u].points = @ + points]

\* A rollover check that clears the completion and keeps the count.
isDailyTaskCompletedTodayKeepingCount(progress) ==
    IF getUtcDateString(now) # getUtcDateString(progress.lastProgressTimestamp)
    THEN [progress EXCEPT !.isCompletedThisPeriod = FALSE]
    ELSE progress

\* A rollover check that forgets the day of the last progress.
isDailyTaskCompletedTodayAnyDay(progress) ==
    [progress EXCEPT !.isCompletedThisPeriod = FALSE, !.currentCount = 0]

\* Lines 295-305: the entry as isDailyTaskCompletedToday leaves it.
isDailyTaskCompletedToday(progress) ==
    IF getUtcDateString(now) # getUtcDateString(progress.lastProgressTimestamp)
    THEN [progress EXCEPT !.isCompletedThisPeriod = FALSE, !.currentCount = 0]
    ELSE progress

\* Lines 307-329: the progress entry, the profiles and the points awarded.  The
\* award's own awaits are folded into the step: points are only ever added to
\* and no guard of the program reads them.
markTaskCompleted(progressStore, profiles, u, task) ==
    LET p0 == progressStore[u][task.taskId]
        p1 == IF task.cadence = "DAILY" THEN isDailyTaskCompletedToday(p0) ELSE p0
        p2 == [p1 EXCEPT !.currentCount = @ + 1, !.lastProgressTimestamp = now]
        done == p2.currentCount >= task.targetCount
    IN  IF task.cadence = "DAILY" /\ p1.isCompletedThisPeriod
        THEN [ progress |-> [progressStore EXCEPT ![u][task.taskId] = p1],
               profiles |-> profiles, awarded |-> FALSE ]
        ELSE [ progress |-> [progressStore EXCEPT ![u][task.taskId] =
                                [p2 EXCEPT !.isCompletedThisPeriod = done \/ @]],
               profiles |-> IF done
                            THEN awardPointsAndNotify(profiles, u, task.pointsReward)
                            ELSE profiles,
               awarded |-> done ]

\* A selection by state and type that leaves the cadence aside.
ActiveTasksOfAnyCadence(type) ==
    SelectSeq(taskDefinitionsStore, LAMBDA t : t.isActive /\ t.type = type)

\* taskDefinitionsStore.filter(t => t.isActive && t.type === type &&
\* t.cadence === DAILY), lines 332, 346, 352.
ActiveDailyTasks(type) ==
    SelectSeq(taskDefinitionsStore,
              LAMBDA t : t.isActive /\ t.type = type /\ t.cadence = "DAILY")

\* Line 362.
daysDifference(lastReviewTimestamp, nowAt) ==
    (SetHoursZero(nowAt) - SetHoursZero(lastReviewTimestamp)) \div HoursPerDay

\* Lines 364-366: reviewStreak after the update.
StreakAfter(profile, nowAt) ==
    LET d == daysDifference(profile.lastReviewTimestamp, nowAt)
    IN  IF profile.lastReviewTimestamp > 0 /\ d = 1 THEN profile.reviewStreak + 1
        ELSE IF d # 0 THEN 1
        ELSE IF profile.lastReviewTimestamp = 0 THEN 1
        ELSE profile.reviewStreak

\* History of task awards: one more for (u, taskId) on today's UTC day.
LogAward(log, u, taskId, awarded) ==
    IF awarded
    THEN [log EXCEPT ![u][taskId][getUtcDateString(now)] = @ + 1]
    ELSE log

IdleLogin == [pc |-> "idle", todo |-> << >>]

\* ------------------------------------------------------- processNewReview

IdleRun == [pc |-> "idle", ev |-> NoEvent, saveOk |-> TRUE, todo |-> << >>,
            nowAt |-> 0, bonus |-> 0, afterCompleted |-> FALSE,
            progressed |-> FALSE, emittedDapp |-> FALSE, emittedNew |-> FALSE,
            dappFound |-> FALSE]

\* Lines 389-400: INSERT OR IGNORE keyed by txHash.
saveReviewToDb(rows, review) ==
    IF \E i \in 1..Len(rows) : rows[i].txHash = review.id THEN rows
    ELSE Append(rows, [txHash |-> review.id, dappId |-> review.dappId,
                       starRating |-> review.starRating,
                       fromAddress |-> review.rater, hasText |-> review.hasText,
                       blockNumber |-> review.timestamp])

AlreadyCachedNever(id) == FALSE

\* Line 433: allReviewsStore.some(r => r.id === id).
AlreadyCached(id) == \E i \in 1..Len(allReviewsStore) : allReviewsStore[i].id = id

\* Lines 554-563 and 421-428: the subscription callback resets the reconnect
\* counter and enters processNewReview, which normalises the event and runs
\* saveReviewToDb; the write fails on any database error, which is caught and
\* logged (lines 402-405).
Deliver(r, e, writeOk) ==
    /\ run[r].pc = "idle"
    /\ IF r = 1 THEN TRUE ELSE run[r - 1].pc # "idle"
    /\ handlers > 0
    /\ r + handlers - 1 <= MaxRuns
    /\ LET serialized == [e EXCEPT !.timestamp = IF @ = 0 THEN now ELSE @]
           started == [IdleRun EXCEPT !.pc = "saved", !.ev = serialized,
                                      !.saveOk = writeOk,
                                      !.afterCompleted =
                                          \E q \in Runs : /\ run[q].pc = "done"
                                                          /\ run[q].ev.id = e.id]
       IN  /\ dbRows' = IF writeOk THEN saveReviewToDb(dbRows, serialized) ELSE dbRows
           \* the event source calls every registered callback in turn
           /\ run' = [q \in Runs |->
                        IF q >= r /\ q < r + handlers THEN started ELSE run[q]]
    /\ reconnectAttempts' = 0
    /\ lastDelay' = 0
    /\ UNCHANGED << cacheVars, progressionVars, taskDefinitionsStore, refresh, now, tz, fileVars,
                    isListenerRunning, wsProviderInitialized, connectPc, handlers,
                    retryDelay, shutdown, restarts, startupVars >>

\* Lines 460-488 and 491-492: the review is cached, the aggregates of its entity
\* are recomputed if the entity has a projection, and
\* processReviewAndRatingTasks is entered (line 346 takes its task list).
UpdateCaches(r, dapps, dappFound, dappName) ==
    LET fullReview == [ id |-> run[r].ev.id, dappId |-> run[r].ev.dappId,
                        starRating |-> run[r].ev.starRating,
                        rater |-> run[r].ev.rater, hasText |-> run[r].ev.hasText,
                        timestamp |-> run[r].ev.timestamp,
                        dappName |-> IF dappFound THEN dappName ELSE UnknownDapp ]
        newByDapp == [reviewsByDappStore EXCEPT
                         ![fullReview.dappId] = << fullReview >> \o @]
        dappIndex == FindDappIndex(dapps, fullReview.dappId)
        aggregates == calculateDappAggregates(newByDapp[fullReview.dappId])
    IN  /\ allReviewsStore' = SortByTimestampDesc(<< fullReview >> \o allReviewsStore)
        /\ reviewsByDappStore' = newByDapp
        /\ dappsStore' =
              IF dappIndex # 0
              THEN [dapps EXCEPT ![dappIndex] =
                      [@ EXCEPT !.totalReviews = aggregates.totalReviews,
                                !.averageRating = aggregates.averageRating]]
              ELSE dapps
        /\ run' = [run EXCEPT ![r] =
                     [@ EXCEPT !.pc = "rate",
                               !.todo = ActiveDailyTasks("DAILY_RATE_ANY_DAPP"),
                               !.progressed = TRUE,
                               !.dappFound = dappFound,
                               !.emittedDapp = (dappIndex # 0)]]

\* Lines 433-443, resumed after the await of line 428: the duplicate check,
\* then the lookup of the entity; a missing entity is fetched from the ledger
\* (ratecasterSDKInstance is set once startup has succeeded).
CheckCache(r) ==
    /\ run[r].pc = "saved"
    /\ IF AlreadyCached(run[r].ev.id)
       THEN /\ run' = [run EXCEPT ![r].pc = "done"]
            /\ UNCHANGED cacheVars
       ELSE LET i == FindDappIndex(dappsStore, run[r].ev.dappId)
            IN  IF i = 0
                THEN /\ run' = [run EXCEPT ![r].pc = "fetch"]
                     /\ UNCHANGED cacheVars
                ELSE UpdateCaches(r, dappsStore, TRUE, dappsStore[i].name)
    /\ UNCHANGED << progressionVars, taskDefinitionsStore, dbRows, refresh, now, tz, fileVars,
                    listenerVars, startupVars >>

GetDappOutcomes == {"shell", "null", "throw"}

\* A resume that ends the run when the entity could not be resolved.
ResumeFetchDroppingUnresolved(r, outcome) ==
    /\ run[r].pc = "fetch"
    /\ IF outcome = "shell"
       THEN UpdateCaches(r,
                Append(dappsStore, [dappId |-> run[r].ev.dappId,
                                    name |-> NameOf(run[r].ev.dappId),
                                    totalReviews |-> 0, averageRating |-> 0]),
                TRUE, NameOf(run[r].ev.dappId))
       ELSE /\ run' = [run EXCEPT ![r].pc = "done"]
            /\ UNCHANGED cacheVars
    /\ UNCHANGED << progressionVars, taskDefinitionsStore, dbRows, refresh, now, tz, fileVars,
                    listenerVars, startupVars >>

\* Lines 443-458, resumed when getDapp settles: a shell is pushed as a new
\* projection; null or an error leaves the entity unresolved.
ResumeFetch(r, outcome) ==
    /\ run[r].pc = "fetch"
    /\ IF outcome = "shell"
       THEN UpdateCaches(r,
                Append(dappsStore, [dappId |-> run[r].ev.dappId,
                                    name |-> NameOf(run[r].ev.dappId),
                                    totalReviews |-> 0, averageRating |-> 0]),
                TRUE, NameOf(run[r].ev.dappId))
       ELSE UpdateCaches(r, dappsStore, FALSE, UnknownDapp)
    /\ UNCHANGED << progressionVars, taskDefinitionsStore, dbRows, refresh, now, tz, fileVars,
                    listenerVars, startupVars >>

\* Lines 494-497: the newReview notification ends the run.
Finished(rec) == [rec EXCEPT !.pc = "done", !.emittedNew = TRUE, !.todo = << >>]

\* One iteration of the loops of lines 347-349 and 353-355.
TaskStep(r) ==
    /\ run[r].pc \in {"rate", "text"}
    /\ run[r].todo # << >>
    /\ run[r].ev.rater \in Users
    /\ LET task == Head(run[r].todo)
           res == markTaskCompleted(userTaskProgressStore, userProfilesDB,
                                    run[r].ev.rater, task)
       IN  /\ userTaskProgressStore' = res.progress
           /\ userProfilesDB' = res.profiles
           /\ awardLog' = LogAward(awardLog, run[r].ev.rater, task.taskId, res.awarded)
    /\ run' = [run EXCEPT ![r].todo = Tail(@)]
    /\ UNCHANGED << cacheVars, taskDefinitionsStore, dbRows, refresh, now, tz, fileVars,
                    listenerVars, startupVars >>

\* Lines 348, 308 and 280: for an event without a rater address
\* userAddress.toLowerCase() throws in getUserTaskProgress; the rejection of
\* processNewReview is logged by the subscription callback (lines 560-562).
TaskThrows(r) ==
    /\ run[r].pc = "rate"
    /\ run[r].todo # << >>
    /\ run[r].ev.rater \notin Users
    /\ run' = [run EXCEPT ![r] = [@ EXCEPT !.pc = "failed", !.todo = << >>]]
    /\ UNCHANGED << cacheVars, progressionVars, taskDefinitionsStore, dbRows, refresh,
                    now, tz, fileVars, listenerVars, startupVars >>

\* Lines 351-352 after the rating tasks: a review with text goes on to the
\* text tasks, a bare rating returns to processNewReview.
RateDone(r) ==
    /\ run[r].pc = "rate"
    /\ run[r].todo = << >>
    /\ run' = [run EXCEPT ![r] =
                 IF run[r].ev.hasText
                 THEN [@ EXCEPT !.pc = "text",
                                !.todo = ActiveDailyTasks("DAILY_REVIEW_ANY_DAPP")]
                 ELSE Finished(@)]
    /\ UNCHANGED << cacheVars, progressionVars, taskDefinitionsStore, dbRows, refresh,
                    now, tz, fileVars, listenerVars, startupVars >>

\* Line 357: getOrCreateUserProfile, awaited.
TextDone(r) ==
    /\ run[r].pc = "text"
    /\ run[r].todo = << >>
    /\ userProfilesDB' = getOrCreateUserProfile(userProfilesDB, run[r].ev.rater)
    /\ run' = [run EXCEPT ![r].pc = "streak"]
    /\ UNCHANGED << cacheVars, userTaskProgressStore, awardLog, taskDefinitionsStore,
                    dbRows, refresh, now, tz, fileVars, listenerVars, startupVars >>

\* Lines 358-369: the streak update; the bonus is computed from the updated
\* streak when awardPointsAndNotify is called.
StreakStep(r) ==
    /\ run[r].pc = "streak"
    /\ LET u == run[r].ev.rater
           streak == StreakAfter(userProfilesDB[u], now)
       IN  /\ userProfilesDB' = [userProfilesDB EXCEPT ![u].reviewStreak = streak]
           /\ run' = [run EXCEPT ![r] =
                        [@ EXCEPT !.pc = IF streak > 0 THEN "bonus" ELSE "stamp",
                                  !.nowAt = now,
                                  !.bonus = streak * POINTS_STREAK_BONUS_PER_DAY]]
    /\ UNCHANGED << cacheVars, userTaskProgressStore, awardLog, taskDefinitionsStore,
                    dbRows, refresh, now, tz, fileVars, listenerVars, startupVars >>

\* A bonus that is paid for the first text review of a day only.
BonusStepOncePerDay(r) ==
    /\ run[r].pc = "bonus"
    /\ userProfilesDB' =
          IF getUtcDateString(userProfilesDB[run[r].ev.rater].lastReviewTimestamp)
               = getUtcDateString(run[r].nowAt)
          THEN userProfilesDB
          ELSE awardPointsAndNotify(userProfilesDB, run[r].ev.rater, run[r].bonus)
    /\ run' = [run EXCEPT ![r].pc = "stamp"]
    /\ UNCHANGED << cacheVars, userTaskProgressStore, awardLog, taskDefinitionsStore,
                    dbRows, refresh, now, tz, fileVars, listenerVars, startupVars >>

\* Lines 369 and 270-277: the streak bonus is added to the profile.
BonusStep(r) ==
    /\ run[r].pc = "bonus"
    /\ userProfilesDB' = awardPointsAndNotify(userProfilesDB, run[r].ev.rater, run[r].bonus)
    /\ run' = [run EXCEPT ![r].pc = "stamp"]
    /\ UNCHANGED << cacheVars, userTaskProgressStore, awardLog, taskDefinitionsStore,
                    dbRows, refresh, now, tz, fileVars, listenerVars, startupVars >>

\* Lines 371-372 and 494-497: lastReviewTimestamp takes the instant read at
\* line 358, and the run ends.  The notification that follows the last await
\* changes no state of the program and is folded into this step.
StampStep(r) ==
    /\ run[r].pc = "stamp"
    /\ userProfilesDB' = [userProfilesDB EXCEPT
                             ![run[r].ev.rater].lastReviewTimestamp = run[r].nowAt]
    /\ run' = [run EXCEPT ![r] = Finished(@)]
    /\ UNCHANGED << cacheVars, userTaskProgressStore, awardLog, taskDefinitionsStore,
                    dbRows, refresh, now, tz, fileVars, listenerVars, startupVars >>

\* --------------------------------------------- refresh-dapp-from-chain

\* Lines 871-877: the request awaits getDapp.
RefreshStart(dappId) ==
    /\ refresh.pc = "idle"
    /\ refresh' = [pc |-> "fetch", dappId |-> dappId]
    /\ UNCHANGED << cacheVars, progressionVars, taskDefinitionsStore, dbRows, run,
                    now, tz, fileVars, listenerVars, startupVars >>

\* A refresh that stores the fetched shell as a zero-aggregate projection.
RefreshResumeZeroAggregates(outcome) ==
    /\ refresh.pc = "fetch"
    /\ refresh' = [pc |-> "idle", dappId |-> "d1"]
    /\ IF outcome = "shell"
       THEN LET fetched == [ dappId |-> refresh.dappId, name |-> NameOf(refresh.dappId),
                             totalReviews |-> 0, averageRating |-> 0 ]
                idx == FindDappIndex(dappsStore, fetched.dappId)
            IN  dappsStore' = IF idx # 0 THEN [dappsStore EXCEPT ![idx] = fetched]
                              ELSE Append(dappsStore, fetched)
       ELSE UNCHANGED dappsStore
    /\ UNCHANGED << reviewsByDappStore, allReviewsStore, progressionVars,
                    taskDefinitionsStore, dbRows, run, now, tz, fileVars, listenerVars, startupVars >>

\* Lines 878-901: a shell replaces the entity's projection, or is pushed,
\* with aggregates from the reviews cached under the requested id.
RefreshResume(outcome) ==
    /\ refresh.pc = "fetch"
    /\ refresh' = [pc |-> "idle", dappId |-> "d1"]
    /\ IF outcome = "shell"
       THEN LET aggregates == calculateDappAggregates(reviewsByDappStore[refresh.dappId])
                fetched == [ dappId |-> refresh.dappId, name |-> NameOf(refresh.dappId),
                             totalReviews |-> aggregates.totalReviews,
                             averageRating |-> aggregates.averageRating ]
                idx == FindDappIndex(dappsStore, fetched.dappId)
            IN  dappsStore' = IF idx # 0 THEN [dappsStore EXCEPT ![idx] = fetched]
                              ELSE Append(dappsStore, fetched)
       ELSE UNCHANGED dappsStore
    /\ UNCHANGED << reviewsByDappStore, allReviewsStore, progressionVars,
                    taskDefinitionsStore, dbRows, run, now, tz, fileVars, listenerVars, startupVars >>

\* ---------------------------------------------------- the ingestion spec

Days == 0..(MaxNow \div HoursPerDay)

\* The process has started: the bulk load has run over the initial rows and
\* shells, the listener is subscribed, no profile exists yet.
Init ==
    /\ LET loaded == LoadedStores(InitialShells, InitialRows)
       IN  /\ dappsStore = loaded.dapps
           /\ reviewsByDappStore = loaded.byDapp
           /\ allReviewsStore = loaded.all
    /\ dbRows = InitialRows
    /\ taskDefinitionsStore = InitialTasks
    /\ userTaskProgressStore = [u \in Users |-> [t \in TaskIds |-> NoProgress]]
    /\ userProfilesDB = [u \in Users |-> NoProfile]
    /\ awardLog = [u \in Users |-> [t \in TaskIds |-> [d \in Days |-> 0]]]
    /\ run = [r \in Runs |-> IdleRun]
    /\ refresh = [pc |-> "idle", dappId |-> "d1"]
    /\ login = [u \in Users |-> IdleLogin]
    /\ now = 2 * HoursPerDay + 6
    /\ tz = "UTC"
    /\ profileFile = userProfilesDB
    /\ pendingSaves = {}
    /\ isListenerRunning = TRUE
    /\ wsProviderInitialized = TRUE
    /\ reconnectAttempts = 0
    /\ connectPc = "listening"
    /\ handlers = 1
    /\ retryDelay = 0
    /\ lastDelay = 0
    /\ shutdown = "no"
    /\ restarts = 0
    /\ phase = "serving"
    /\ loadedShells = InitialShells

Next ==
    \/ \E r \in Runs, e \in EventPool, writeOk \in BOOLEAN : Deliver(r, e, writeOk)
    \/ \E r \in Runs : CheckCache(r)
    \/ \E r \in Runs, outcome \in GetDappOutcomes : ResumeFetch(r, outcome)
    \/ \E r \in Runs : TaskStep(r)
    \/ \E r \in Runs : RateDone(r)
    \/ \E r \in Runs : TextDone(r)
    \/ \E r \in Runs : StreakStep(r)
    \/ \E r \in Runs : BonusStep(r)
    \/ \E r \in Runs : StampStep(r)

Spec == Init /\ [][Next]_vars

\* An event is delivered when no run is in progress: the events are
\* processed one after the other, in any order.
DeliverInTurn(r, e, writeOk) ==
    /\ \A q \in Runs : run[q].pc \in {"idle", "done", "failed"}
    /\ Deliver(r, e, writeOk)

NextSequential ==
    \/ \E r \in Runs, e \in EventPool, writeOk \in BOOLEAN : DeliverInTurn(r, e, writeOk)
    \/ \E r \in Runs : CheckCache(r)
    \/ \E r \in Runs, outcome \in GetDappOutcomes : ResumeFetch(r, outcome)
    \/ \E r \in Runs : TaskStep(r)
    \/ \E r \in Runs : RateDone(r)
    \/ \E r \in Runs : TextDone(r)
    \/ \E r \in Runs : StreakStep(r)
    \/ \E r \in Runs : BonusStep(r)
    \/ \E r \in Runs : StampStep(r)

SpecSequential == Init /\ [][NextSequential]_vars

\* The ingestion pipeline fed with malformed events as well.
NextMalformed ==
    \/ \E r \in Runs, e \in EventPool \cup MalformedEvents, writeOk \in BOOLEAN :
          Deliver(r, e, writeOk)
    \/ \E r \in Runs : CheckCache(r)
    \/ \E r \in Runs, outcome \in GetDappOutcomes : ResumeFetch(r, outcome)
    \/ \E r \in Runs : TaskStep(r)
    \/ \E r \in Runs : TaskThrows(r)
    \/ \E r \in Runs : RateDone(r)
    \/ \E r \in Runs : TextDone(r)
    \/ \E r \in Runs : StreakStep(r)
    \/ \E r \in Runs : BonusStep(r)
    \/ \E r \in Runs : StampStep(r)

SpecMalformed == Init /\ [][NextMalformed]_vars

\* The ingestion pipeline together with refresh-dapp-from-chain requests.
NextRefresh ==
    \/ Next
    \/ \E d \in DappIds : RefreshStart(d)
    \/ \E outcome \in GetDappOutcomes : RefreshResume(outcome)

SpecRefresh == Init /\ [][NextRefresh]_vars

\* -------------------------------------------------- the progression spec

\* Line 492: processReviewAndRatingTasks is entered for a rater, with or
\* without review text, and takes its list of rating tasks (line 346).
ReviewAction(r, u, hasText) ==
    /\ run[r].pc = "idle"
    /\ IF r = 1 THEN TRUE ELSE run[r - 1].pc # "idle"
    /\ run' = [run EXCEPT ![r] =
                 [IdleRun EXCEPT !.pc = "rate",
                                 !.ev = [NoEvent EXCEPT !.id = "direct", !.rater = u,
                                                        !.hasText = hasText],
                                 !.todo = ActiveDailyTasks("DAILY_RATE_ANY_DAPP"),
                                 !.progressed = TRUE]]
    /\ UNCHANGED << cacheVars, progressionVars, taskDefinitionsStore, dbRows, refresh,
                    now, tz, fileVars, listenerVars, startupVars >>

\* Lines 698-702 and 331-332: a wallet-connected request enters
\* processLoginTasks, which takes its list of login tasks.
LoginStart(u) ==
    /\ login[u].pc = "idle"
    /\ login' = [login EXCEPT ![u] = [pc |-> "tasks",
                                      todo |-> ActiveDailyTasks("DAILY_LOGIN")]]
    /\ UNCHANGED << cacheVars, progressionVars, taskDefinitionsStore, dbRows, run,
                    refresh, now, tz, fileVars, listenerVars, phase, loadedShells >>

\* One iteration of the loop of lines 333-335.
LoginTaskStep(u) ==
    /\ login[u].pc = "tasks"
    /\ login[u].todo # << >>
    /\ LET task == Head(login[u].todo)
           res == markTaskCompleted(userTaskProgressStore, userProfilesDB, u, task)
       IN  /\ userTaskProgressStore' = res.progress
           /\ userProfilesDB' = res.profiles
           /\ awardLog' = LogAward(awardLog, u, task.taskId, res.awarded)
    /\ login' = [login EXCEPT ![u].todo = Tail(@)]
    /\ UNCHANGED << cacheVars, taskDefinitionsStore, dbRows, run, refresh, now, tz, fileVars,
                    listenerVars, phase, loadedShells >>

\* Line 336: getOrCreateUserProfile, awaited.
LoginTasksDone(u) ==
    /\ login[u].pc = "tasks"
    /\ login[u].todo = << >>
    /\ userProfilesDB' = getOrCreateUserProfile(userProfilesDB, u)
    /\ login' = [login EXCEPT ![u].pc = "stamp"]
    /\ UNCHANGED << cacheVars, userTaskProgressStore, awardLog, taskDefinitionsStore,
                    dbRows, run, refresh, now, tz, fileVars, listenerVars, phase, loadedShells >>

\* Lines 337-342 and 703-704: the first login of the local day is stamped and
\* the request answered.
LoginStamp(u) ==
    /\ login[u].pc = "stamp"
    /\ userProfilesDB' =
          IF userProfilesDB[u].lastLoginTimestamp < SetHoursZero(now)
          THEN [userProfilesDB EXCEPT ![u].lastLoginTimestamp = now]
          ELSE userProfilesDB
    /\ login' = [login EXCEPT ![u] = IdleLogin]
    /\ UNCHANGED << cacheVars, userTaskProgressStore, awardLog, taskDefinitionsStore,
                    dbRows, run, refresh, now, tz, fileVars, listenerVars, phase, loadedShells >>

RECURSIVE TouchProgress(_, _, _)
TouchProgress(store, u, tasks) ==
    IF tasks = << >> THEN store
    ELSE LET t == Head(tasks)
             touched == IF t.cadence = "DAILY"
                        THEN [store EXCEPT ![u][t.taskId] = isDailyTaskCompletedToday(@)]
                        ELSE store
         IN  TouchProgress(touched, u, Tail(tasks))

\* Lines 739-755: GET /api/tasks/progress evaluates the daily rollover of every
\* active task of the user.
ProgressRead(u) ==
    /\ userTaskProgressStore' =
          TouchProgress(userTaskProgressStore, u,
                        SelectSeq(taskDefinitionsStore, LAMBDA t : t.isActive))
    /\ userTaskProgressStore' # userTaskProgressStore
    /\ UNCHANGED << cacheVars, userProfilesDB, awardLog, taskDefinitionsStore, dbRows,
                    run, refresh, now, tz, fileVars, listenerVars, startupVars >>

\* Time passes: half a day at a time.
AdvanceClock ==
    /\ now + HoursPerDay \div 2 <= MaxNow
    /\ now' = now + HoursPerDay \div 2
    /\ UNCHANGED << cacheVars, progressionVars, taskDefinitionsStore, dbRows, run,
                    refresh, tz, fileVars, listenerVars, startupVars >>

\* The process is serving, its clock on UTC.
InitTasks ==
    /\ LET loaded == LoadedStores(InitialShells, InitialRows)
       IN  /\ dappsStore = loaded.dapps
           /\ reviewsByDappStore = loaded.byDapp
           /\ allReviewsStore = loaded.all
    /\ dbRows = InitialRows
    /\ taskDefinitionsStore = InitialTasks
    /\ userTaskProgressStore = [u \in Users |-> [t \in TaskIds |-> NoProgress]]
    /\ userProfilesDB = [u \in Users |-> NoProfile]
    /\ awardLog = [u \in Users |-> [t \in TaskIds |-> [d \in Days |-> 0]]]
    /\ run = [r \in Runs |-> IdleRun]
    /\ refresh = [pc |-> "idle", dappId |-> "d1"]
    /\ login = [u \in Users |-> IdleLogin]
    /\ now = 2 * HoursPerDay + 6
    /\ tz = "UTC"
    /\ profileFile = userProfilesDB
    /\ pendingSaves = {}
    /\ isListenerRunning = TRUE
    /\ wsProviderInitialized = TRUE
    /\ reconnectAttempts = 0
    /\ connectPc = "listening"
    /\ handlers = 1
    /\ retryDelay = 0
    /\ lastDelay = 0
    /\ shutdown = "no"
    /\ restarts = 0
    /\ phase = "serving"
    /\ loadedShells = InitialShells

NextTasks ==
    \/ \E r \in Runs, u \in Users, hasText \in BOOLEAN : ReviewAction(r, u, hasText)
    \/ \E r \in Runs : TaskStep(r)
    \/ \E r \in Runs : RateDone(r)
    \/ \E r \in Runs : TextDone(r)
    \/ \E r \in Runs : StreakStep(r)
    \/ \E r \in Runs : BonusStep(r)
    \/ \E r \in Runs : StampStep(r)
    \/ \E u \in LoginUsers : LoginStart(u)
    \/ \E u \in Users : LoginTaskStep(u)
    \/ \E u \in Users : LoginTasksDone(u)
    \/ \E u \in Users : LoginStamp(u)
    \/ \E u \in Users : ProgressRead(u)
    \/ AdvanceClock

SpecTasks == InitTasks /\ [][NextTasks]_vars

\* ---------------------------------------------------- the persistence spec

\* Lines 270-273, 127-129 and 103-105: awardPointsAndNotify adds the points
\* and updateUserProfileInDB calls saveUserProfilesToDB, which serialises the
\* whole profile map at once and hands the text to fs.writeFile.
AwardAndSave(u, points) ==
    /\ Cardinality(pendingSaves) < MaxPending
    /\ userProfilesDB[u].points + points <= MaxPoints
    /\ userProfilesDB' = awardPointsAndNotify(userProfilesDB, u, points)
    /\ pendingSaves' = pendingSaves \cup {userProfilesDB'}
    /\ UNCHANGED << cacheVars, userTaskProgressStore, awardLog, taskDefinitionsStore,
                    dbRows, run, refresh, now, tz, profileFile, listenerVars,
                    startupVars >>

\* Line 105: a write of fs.writeFile completes and its text is the content of
\* the file.  Writes in flight on one file complete in no fixed order.
WriteLands(snapshot) ==
    /\ snapshot \in pendingSaves
    /\ profileFile' = snapshot
    /\ pendingSaves' = pendingSaves \ {snapshot}
    /\ UNCHANGED << cacheVars, progressionVars, taskDefinitionsStore, dbRows, run,
                    refresh, now, tz, listenerVars, startupVars >>

NextPersist ==
    \/ \E u \in Users, i \in 1..Len(InitialTasks) :
          AwardAndSave(u, InitialTasks[i].pointsReward)
    \/ \E snapshot \in pendingSaves : WriteLands(snapshot)

SpecPersist == InitTasks /\ [][NextPersist]_vars

\* ------------------------------------------------- the administration spec

\* Bodies of POST /admin/tasks/define: the payload check of line 763 looks at
\* taskId, title, type and cadence only.
AdminTaskPool ==
    { [taskId |-> "login", type |-> "DAILY_LOGIN", cadence |-> "DAILY",
       pointsReward |-> -20, targetCount |-> 1, isActive |-> TRUE],
      [taskId |-> "extra", type |-> "DAILY_RATE_ANY_DAPP", cadence |-> "DAILY",
       pointsReward |-> 30, targetCount |-> 1, isActive |-> TRUE] }

\* Lines 757-782: the definition replaces the one with its taskId or is
\* appended; the file write that follows changes no state of the process.
AdminDefineTask(newTaskDefinition) ==
    /\ LET existing == { i \in 1..Len(taskDefinitionsStore) :
                            taskDefinitionsStore[i].taskId = newTaskDefinition.taskId }
       IN  taskDefinitionsStore' =
              IF existing # {}
              THEN [taskDefinitionsStore EXCEPT
                       ![CHOOSE i \in existing : \A j \in existing : i <= j] =
                           newTaskDefinition]
              ELSE Append(taskDefinitionsStore, newTaskDefinition)
    /\ taskDefinitionsStore' # taskDefinitionsStore
    /\ UNCHANGED << cacheVars, progressionVars, dbRows, run, refresh, now, tz, fileVars,
                    listenerVars, startupVars >>

\* Lines 711-720: GET /api/users/profile creates the profile on first reference.
\* Requests are accepted once httpServer.listen was called (line 914).
ProfileRead(u) ==
    /\ phase = "serving"
    /\ ~userProfilesDB[u].exists
    /\ userProfilesDB' = getOrCreateUserProfile(userProfilesDB, u)
    /\ UNCHANGED << cacheVars, userTaskProgressStore, awardLog, taskDefinitionsStore,
                    dbRows, run, refresh, now, tz, fileVars, listenerVars, startupVars >>

NextAdmin ==
    \/ \E t \in AdminTaskPool : AdminDefineTask(t)
    \/ \E u \in Users : ProfileRead(u)
    \/ \E r \in Runs, u \in Users, hasText \in BOOLEAN : ReviewAction(r, u, hasText)
    \/ \E r \in Runs : TaskStep(r)
    \/ \E r \in Runs : RateDone(r)
    \/ \E r \in Runs : TextDone(r)
    \/ \E r \in Runs : StreakStep(r)
    \/ \E r \in Runs : BonusStep(r)
    \/ \E r \in Runs : StampStep(r)
    \/ \E u \in LoginUsers : LoginStart(u)
    \/ \E u \in Users : LoginTaskStep(u)
    \/ \E u \in Users : LoginTasksDone(u)
    \/ \E u \in Users : LoginStamp(u)

SpecAdmin == InitTasks /\ [][NextAdmin]_vars

\* ------------------------------------------------- the task selection spec

\* Definitions an administrator writes over time: a task is switched off and on
\* again, and the fourth task is given another type, cadence or state
\* (TaskCadence of src/types.ts: DAILY, WEEKLY, ONCE).
TaskDefinitionPool ==
    { [taskId |-> "login", type |-> "DAILY_LOGIN", cadence |-> "DAILY",
       pointsReward |-> 10, targetCount |-> 1, isActive |-> FALSE],
      [taskId |-> "login", type |-> "DAILY_LOGIN", cadence |-> "DAILY",
       pointsReward |-> 10, targetCount |-> 1, isActive |-> TRUE],
      [taskId |-> "extra", type |-> "DAILY_RATE_ANY_DAPP", cadence |-> "WEEKLY",
       pointsReward |-> 30, targetCount |-> 1, isActive |-> TRUE],
      [taskId |-> "extra", type |-> "DAILY_REVIEW_ANY_DAPP", cadence |-> "DAILY",
       pointsReward |-> 30, targetCount |-> 1, isActive |-> FALSE],
      [taskId |-> "extra", type |-> "DAILY_LOGIN", cadence |-> "ONCE",
       pointsReward |-> 30, targetCount |-> 1, isActive |-> TRUE] }

\* No processNewReview and no processLoginTasks is between its filter and the
\* end of its loops.
NoTaskLoopInFlight ==
    /\ \A r \in Runs : run[r].pc \in {"idle", "done"}
    /\ \A u \in Users : login[u].pc = "idle"

\* Lines 757-782, for a request that arrives while no task loop is running.
DefineTaskBetweenActions(newTaskDefinition) ==
    /\ NoTaskLoopInFlight
    /\ AdminDefineTask(newTaskDefinition)

NextSelection ==
    \/ \E t \in TaskDefinitionPool : DefineTaskBetweenActions(t)
    \/ \E r \in Runs, u \in Users, hasText \in BOOLEAN : ReviewAction(r, u, hasText)
    \/ \E r \in Runs : TaskStep(r)
    \/ \E r \in Runs : RateDone(r)
    \/ \E r \in Runs : TextDone(r)
    \/ \E r \in Runs : StreakStep(r)
    \/ \E r \in Runs : BonusStep(r)
    \/ \E r \in Runs : StampStep(r)
    \/ \E u \in LoginUsers : LoginStart(u)
    \/ \E u \in Users : LoginTaskStep(u)
    \/ \E u \in Users : LoginTasksDone(u)
    \/ \E u \in Users : LoginStamp(u)

SpecSelection == InitTasks /\ [][NextSelection]_vars

\* ------------------------------------------------------- the restart spec

\* The process is stopped and startBackendApplication (lines 586-630) runs
\* again up to serving: every callback in flight is gone, the task progress
\* starts empty (line 51), the task definitions and the profiles are read
\* back from their files (lines 70-101; the profile file is taken to hold
\* every award made), and the cache is loaded from the review table.
Restart ==
    /\ restarts < MaxRestarts
    /\ phase = "serving"
    /\ restarts' = restarts + 1
    /\ userTaskProgressStore' = [u \in Users |-> [t \in TaskIds |-> NoProgress]]
    /\ run' = [r \in Runs |-> IF run[r].pc \in {"idle", "done"} THEN run[r]
                              ELSE [run[r] EXCEPT !.pc = "killed"]]
    /\ login' = [u \in Users |-> IdleLogin]
    /\ LET loaded == LoadedStores(loadedShells, dbRows)
       IN  /\ dappsStore' = loaded.dapps
           /\ reviewsByDappStore' = loaded.byDapp
           /\ allReviewsStore' = loaded.all
    /\ UNCHANGED << userProfilesDB, awardLog, taskDefinitionsStore, dbRows, refresh,
                    now, tz, fileVars, isListenerRunning, wsProviderInitialized,
                    reconnectAttempts, connectPc, handlers, retryDelay, lastDelay,
                    shutdown, phase, loadedShells >>

NextRestart ==
    \/ Restart
    \/ \E r \in Runs, u \in Users, hasText \in BOOLEAN : ReviewAction(r, u, hasText)
    \/ \E r \in Runs : TaskStep(r)
    \/ \E r \in Runs : RateDone(r)
    \/ \E r \in Runs : TextDone(r)
    \/ \E r \in Runs : StreakStep(r)
    \/ \E r \in Runs : BonusStep(r)
    \/ \E r \in Runs : StampStep(r)
    \/ \E u \in LoginUsers : LoginStart(u)
    \/ \E u \in Users : LoginTaskStep(u)
    \/ \E u \in Users : LoginTasksDone(u)
    \/ \E u \in Users : LoginStamp(u)

SpecRestart == InitTasks /\ [][NextRestart]_vars

\* ------------------------------------------------------ the bulk-load spec

RowPool ==
    { [txHash |-> "r1", dappId |-> "D1", starRating |-> 4, fromAddress |-> "u2",
       hasText |-> TRUE, blockNumber |-> 5],
      [txHash |-> "r2", dappId |-> "d1", starRating |-> 4, fromAddress |-> "u1",
       hasText |-> FALSE, blockNumber |-> 8],
      [txHash |-> "r3", dappId |-> "d1", starRating |-> 5, fromAddress |-> "u1",
       hasText |-> TRUE, blockNumber |-> 6],
      [txHash |-> "r4", dappId |-> "d2", starRating |-> 2, fromAddress |-> "u2",
       hasText |-> FALSE, blockNumber |-> 3] }

ShellPool == { [dappId |-> d, name |-> NameOf(d)] : d \in DappIds }

\* The sequences without repetition of at most n elements of S.
DistinctSeqs(S, n) ==
    UNION { { s \in [1..k -> S] : \A i, j \in 1..k : i # j => s[i] # s[j] } : k \in 0..n }

RowOptions == DistinctSeqs(RowPool, MaxRows)

ShellOptions == DistinctSeqs(ShellPool, MaxShells)

\* What the three stores may hold before a load: the result of an earlier
\* load, or entries that agree with no review at all.
PriorStores ==
    { LoadedStores(sh, rw) : sh \in ShellOptions,
                             rw \in { r \in RowOptions : Len(r) <= 1 } }
    \cup { [ all |-> << >>, byDapp |-> [k \in DappIds |-> << >>],
             dapps |-> << [dappId |-> "d2", name |-> "Beta",
                           totalReviews |-> 7, averageRating |-> 350] >> ] }

InitLoad ==
    /\ \E prior \in PriorStores :
          /\ dappsStore = prior.dapps
          /\ reviewsByDappStore = prior.byDapp
          /\ allReviewsStore = prior.all
    /\ dbRows \in RowOptions
    /\ taskDefinitionsStore = InitialTasks
    /\ userTaskProgressStore = [u \in Users |-> [t \in TaskIds |-> NoProgress]]
    /\ userProfilesDB = [u \in Users |-> NoProfile]
    /\ awardLog = [u \in Users |-> [t \in TaskIds |-> [d \in Days |-> 0]]]
    /\ run = [r \in Runs |-> IdleRun]
    /\ refresh = [pc |-> "idle", dappId |-> "d1"]
    /\ login = [u \in Users |-> IdleLogin]
    /\ now = 2 * HoursPerDay + 6
    /\ tz = "UTC"
    /\ profileFile = userProfilesDB
    /\ pendingSaves = {}
    /\ isListenerRunning = FALSE
    /\ wsProviderInitialized = TRUE
    /\ reconnectAttempts = 0
    /\ connectPc = "off"
    /\ handlers = 0
    /\ retryDelay = 0
    /\ lastDelay = 0
    /\ shutdown = "no"
    /\ restarts = 0
    /\ phase = "boot"
    /\ loadedShells = << >>

\* Lines 181-186: fetchInitialDataFromDb awaits sdk.getAllDapps.
LoadStart ==
    /\ phase = "boot"
    /\ phase' = "loading"
    /\ UNCHANGED << cacheVars, progressionVars, taskDefinitionsStore, dbRows, run,
                    refresh, login, now, tz, fileVars, listenerVars, loadedShells >>

\* A load whose error is swallowed: startup goes on over the cache of before.
LoadResumeSwallowingErrors(shells, ok) ==
    /\ phase = "loading"
    /\ IF ok
       THEN LET loaded == LoadedStores(shells, dbRows)
            IN  /\ allReviewsStore' = loaded.all
                /\ reviewsByDappStore' = loaded.byDapp
                /\ dappsStore' = loaded.dapps
                /\ loadedShells' = shells
                /\ phase' = "loaded"
       ELSE /\ phase' = "loaded"
            /\ UNCHANGED << cacheVars, loadedShells >>
    /\ UNCHANGED << progressionVars, taskDefinitionsStore, dbRows, run, refresh, login,
                    now, tz, fileVars, listenerVars >>

\* A load that assigns the review stores in one step and dappsStore in a
\* later one.
LoadResumeInTwoSteps(shells, ok) ==
    /\ IF phase = "loading" /\ ok
       THEN LET loaded == LoadedStores(shells, dbRows)
            IN  /\ allReviewsStore' = loaded.all
                /\ reviewsByDappStore' = loaded.byDapp
                /\ loadedShells' = shells
                /\ phase' = "swapping"
                /\ UNCHANGED dappsStore
       ELSE /\ phase = "swapping"
            /\ shells = loadedShells
            /\ ok
            /\ dappsStore' = LoadedStores(loadedShells, dbRows).dapps
            /\ phase' = "loaded"
            /\ UNCHANGED << allReviewsStore, reviewsByDappStore, loadedShells >>
    /\ UNCHANGED << progressionVars, taskDefinitionsStore, dbRows, run, refresh, login,
                    now, tz, fileVars, listenerVars >>

\* Lines 187-261, resumed when getAllDapps settles: the rows are read and the
\* three stores assigned; an error of the ledger or of the database is
\* rethrown and startup exits (lines 915-917).
LoadResume(shells, ok) ==
    /\ phase = "loading"
    /\ IF ok
       THEN LET loaded == LoadedStores(shells, dbRows)
            IN  /\ allReviewsStore' = loaded.all
                /\ reviewsByDappStore' = loaded.byDapp
                /\ dappsStore' = loaded.dapps
                /\ loadedShells' = shells
                /\ phase' = "loaded"
       ELSE /\ phase' = "exited"
            /\ UNCHANGED << cacheVars, loadedShells >>
    /\ UNCHANGED << progressionVars, taskDefinitionsStore, dbRows, run, refresh, login,
                    now, tz, fileVars, listenerVars >>

NextLoad ==
    \/ LoadStart
    \/ \E shells \in ShellOptions, ok \in BOOLEAN : LoadResume(shells, ok)

SpecLoad == InitLoad /\ [][NextLoad]_vars

\* ------------------------------------------------------- the streak spec

\* Instants of a user's previous text review (0: none yet) and of the review
\* being processed, in hours.
LastReviewPool == {0, 10, 30, 40, 50}

NowPool == {54, 60, 75}

\* A stored profile: no review yet, or a last review with a streak.
StoredProfiles ==
    { [NoProfile EXCEPT !.exists = TRUE] }
      \cup { [NoProfile EXCEPT !.exists = TRUE, !.lastReviewTimestamp = l,
                               !.reviewStreak = s] :
             l \in LastReviewPool \ {0}, s \in 1..MaxStreak }

\* loadUserProfilesFromDB has read one stored profile; the server runs in any
\* of the time zones and no handler is running.
InitStreak ==
    /\ LET loaded == LoadedStores(InitialShells, InitialRows)
       IN  /\ dappsStore = loaded.dapps
           /\ reviewsByDappStore = loaded.byDapp
           /\ allReviewsStore = loaded.all
    /\ dbRows = InitialRows
    /\ taskDefinitionsStore = InitialTasks
    /\ userTaskProgressStore = [u \in Users |-> [t \in TaskIds |-> NoProgress]]
    /\ \E p \in StoredProfiles :
          userProfilesDB = [u \in Users |-> IF u = "u1" THEN p ELSE NoProfile]
    /\ awardLog = [u \in Users |-> [t \in TaskIds |-> [d \in Days |-> 0]]]
    /\ run = [r \in Runs |-> IdleRun]
    /\ refresh = [pc |-> "idle", dappId |-> "d1"]
    /\ login = [u \in Users |-> IdleLogin]
    /\ now \in NowPool
    /\ tz \in TimeZones
    /\ profileFile = userProfilesDB
    /\ pendingSaves = {}
    /\ isListenerRunning = TRUE
    /\ wsProviderInitialized = TRUE
    /\ reconnectAttempts = 0
    /\ connectPc = "listening"
    /\ handlers = 1
    /\ retryDelay = 0
    /\ lastDelay = 0
    /\ shutdown = "no"
    /\ restarts = 0
    /\ phase = "serving"
    /\ loadedShells = InitialShells

\* One review by the user of the stored profile, processed on its own.
NextStreak ==
    \/ \E hasText \in BOOLEAN : ReviewAction(1, "u1", hasText)
    \/ \E r \in Runs : TaskStep(r)
    \/ \E r \in Runs : RateDone(r)
    \/ \E r \in Runs : TextDone(r)
    \/ \E r \in Runs : StreakStep(r)
    \/ \E r \in Runs : BonusStep(r)
    \/ \E r \in Runs : StampStep(r)

SpecStreak == InitStreak /\ [][NextStreak]_vars

\* The events that carry review text: two ids, one rater.
TextEvents == { e \in EventPool : e.hasText }

\* A stored profile has been read, the clock is on UTC, and the text events
\* are delivered to handler runs that overlap freely.
InitOverlap ==
    /\ InitStreak
    /\ tz = "UTC"

NextOverlap ==
    \/ \E r \in Runs, e \in TextEvents : Deliver(r, e, TRUE)
    \/ \E r \in Runs : CheckCache(r)
    \/ \E r \in Runs, outcome \in GetDappOutcomes : ResumeFetch(r, outcome)
    \/ \E r \in Runs : TaskStep(r)
    \/ \E r \in Runs : RateDone(r)
    \/ \E r \in Runs : TextDone(r)
    \/ \E r \in Runs : StreakStep(r)
    \/ \E r \in Runs : BonusStep(r)
    \/ \E r \in Runs : StampStep(r)

SpecOverlap == InitOverlap /\ [][NextOverlap]_vars

\* ----------------------------------------------------- startReviewListener

\* Lines 546 and 547, in milliseconds.
baseDelay == 1000

maxDelay == 60000

Min(a, b) == IF a <= b THEN a ELSE b

\* A backoff that grows without the cap.
delayUncapped(attempts) == baseDelay * 2 ^ attempts

\* Line 576.
delay(attempts) == Min(baseDelay * 2 ^ attempts, maxDelay)

nonListenerVars == << cacheVars, progressionVars, taskDefinitionsStore, dbRows, run,
                      refresh, login, now, tz, fileVars, loadedShells, shutdown, restarts >>

\* A start that does not look at the WebSocket provider.
StartReviewListenerUnchecked ==
    /\ phase = "loaded"
    /\ IF isListenerRunning
       THEN /\ phase' = "serving"
            /\ UNCHANGED listenerVars
       ELSE /\ phase' = "starting"
            /\ isListenerRunning' = TRUE
            /\ reconnectAttempts' = 0
            /\ connectPc' = "subscribing"
            /\ UNCHANGED << wsProviderInitialized, handlers, retryDelay, lastDelay >>
    /\ UNCHANGED nonListenerVars

\* Lines 630 and 524-553: startup calls startReviewListener, which returns at
\* once when a listener runs or the provider is missing, and otherwise makes
\* the first subscribe attempt; startup goes on to httpServer.listen (line
\* 914) when the call returns.
StartReviewListener ==
    /\ phase = "loaded"
    /\ IF isListenerRunning
       THEN /\ phase' = "serving"
            /\ UNCHANGED listenerVars
       ELSE IF ~wsProviderInitialized
       THEN /\ phase' = "serving"
            /\ UNCHANGED listenerVars
       ELSE /\ phase' = "starting"
            /\ isListenerRunning' = TRUE
            /\ reconnectAttempts' = 0
            /\ connectPc' = "subscribing"
            /\ UNCHANGED << wsProviderInitialized, handlers, retryDelay, lastDelay >>
    /\ UNCHANGED nonListenerVars

\* sdk.listenToReviews (line 553) hands the callback to the event source while
\* its promise is pending.
SubscribeRegisters ==
    /\ connectPc = "subscribing"
    /\ handlers < MaxHandlers
    /\ handlers' = handlers + 1
    /\ connectPc' = "subscribed"
    /\ UNCHANGED << isListenerRunning, wsProviderInitialized, reconnectAttempts,
                    retryDelay, lastDelay, phase, nonListenerVars >>

\* Lines 553 and 564: the promise of listenToReviews resolves; connect returns.
SubscribeResolves ==
    /\ connectPc = "subscribed"
    /\ connectPc' = "listening"
    /\ phase' = IF phase = "starting" THEN "serving" ELSE phase
    /\ UNCHANGED << isListenerRunning, wsProviderInitialized, reconnectAttempts,
                    handlers, retryDelay, lastDelay, nonListenerVars >>

\* Lines 567-573: the promise rejects, before or after the callback was handed
\* over; the catch block awaits stopListening.
SubscribeRejects ==
    /\ connectPc \in {"subscribing", "subscribed"}
    /\ reconnectAttempts < MaxAttempts
    /\ connectPc' = "stopping"
    /\ UNCHANGED << isListenerRunning, wsProviderInitialized, reconnectAttempts,
                    handlers, retryDelay, lastDelay, phase, nonListenerVars >>

\* Lines 572-579: stopListening removed the callbacks, or it failed and the
\* failure was logged (line 572); then the attempt is counted, the delay is
\* computed from the new count and the timer is set; connect returns.
StopDone(stopOk) ==
    /\ connectPc = "stopping"
    /\ handlers' = IF stopOk THEN 0 ELSE handlers
    /\ reconnectAttempts' = reconnectAttempts + 1
    /\ retryDelay' = delay(reconnectAttempts + 1)
    /\ lastDelay' = delay(reconnectAttempts + 1)
    /\ connectPc' = "waiting"
    /\ phase' = IF phase = "starting" THEN "serving" ELSE phase
    /\ UNCHANGED << isListenerRunning, wsProviderInitialized, nonListenerVars >>

\* A timer that stops retrying after three failed attempts.
TimerFiresGivingUp ==
    /\ connectPc = "waiting"
    /\ reconnectAttempts < 3
    /\ connectPc' = "subscribing"
    /\ UNCHANGED << isListenerRunning, wsProviderInitialized, reconnectAttempts,
                    handlers, retryDelay, lastDelay, phase, nonListenerVars >>

\* Line 579: the timer calls connect, which subscribes again (lines 551-553).
TimerFires ==
    /\ connectPc = "waiting"
    /\ connectPc' = "subscribing"
    /\ UNCHANGED << isListenerRunning, wsProviderInitialized, reconnectAttempts,
                    handlers, retryDelay, lastDelay, phase, nonListenerVars >>

\* The transport of an established subscription fails: its callbacks are
\* called no more.  No code runs on this.
TransportFails ==
    /\ connectPc = "listening"
    /\ connectPc' = "lost"
    /\ handlers' = 0
    /\ UNCHANGED << isListenerRunning, wsProviderInitialized, reconnectAttempts,
                    retryDelay, lastDelay, phase, nonListenerVars >>

listenerCoreVars == << wsProviderInitialized, reconnectAttempts, connectPc,
                       retryDelay, lastDelay >>

dataVars == << cacheVars, progressionVars, taskDefinitionsStore, dbRows, refresh,
               login, now, tz, fileVars, loadedShells, restarts >>

\* Lines 921-926 and 938-939: a signal starts gracefulShutdown, which clears
\* isListenerRunning and awaits stopListening.  The signal is handled when no
\* callback is running: not between the bulk load and the call of line 630.
GracefulShutdown ==
    /\ shutdown = "no"
    /\ phase \in {"starting", "serving"}
    /\ shutdown' = "stopping"
    /\ isListenerRunning' = FALSE
    /\ UNCHANGED << listenerCoreVars, handlers, phase, run, dataVars >>

\* Lines 926-932: stopListening has returned or thrown; saveUserProfilesToDB
\* is awaited.
ShutdownStopped(stopOk) ==
    /\ shutdown = "stopping"
    /\ shutdown' = "saving"
    /\ handlers' = IF stopOk THEN 0 ELSE handlers
    /\ UNCHANGED << listenerCoreVars, isListenerRunning, phase, run, dataVars >>

\* Lines 932-934: the profiles are saved and the exit timer is set.
ShutdownSaved ==
    /\ shutdown = "saving"
    /\ shutdown' = "exiting"
    /\ UNCHANGED << listenerCoreVars, isListenerRunning, handlers, phase, run, dataVars >>

\* Line 934: process.exit(0) ends every callback and timer of the process.
ProcessExit ==
    /\ shutdown = "exiting"
    /\ shutdown' = "exited"
    /\ phase' = "exited"
    /\ connectPc' = "off"
    /\ handlers' = 0
    /\ run' = [r \in Runs |-> IF run[r].pc \in {"idle", "done"} THEN run[r]
                              ELSE [run[r] EXCEPT !.pc = "killed"]]
    /\ UNCHANGED << isListenerRunning, wsProviderInitialized, reconnectAttempts,
                    retryDelay, lastDelay, dataVars >>

\* startBackendApplication has loaded the cache; the WebSocket provider was
\* initialised or not (lines 142-162).
InitListener ==
    /\ LET loaded == LoadedStores(InitialShells, InitialRows)
       IN  /\ dappsStore = loaded.dapps
           /\ reviewsByDappStore = loaded.byDapp
           /\ allReviewsStore = loaded.all
    /\ dbRows = InitialRows
    /\ taskDefinitionsStore = InitialTasks
    /\ userTaskProgressStore = [u \in Users |-> [t \in TaskIds |-> NoProgress]]
    /\ userProfilesDB = [u \in Users |-> NoProfile]
    /\ awardLog = [u \in Users |-> [t \in TaskIds |-> [d \in Days |-> 0]]]
    /\ run = [r \in Runs |-> IdleRun]
    /\ refresh = [pc |-> "idle", dappId |-> "d1"]
    /\ login = [u \in Users |-> IdleLogin]
    /\ now = 2 * HoursPerDay + 6
    /\ tz = "UTC"
    /\ profileFile = userProfilesDB
    /\ pendingSaves = {}
    /\ isListenerRunning = FALSE
    /\ wsProviderInitialized \in BOOLEAN
    /\ reconnectAttempts = 0
    /\ connectPc = "off"
    /\ handlers = 0
    /\ retryDelay = 0
    /\ lastDelay = 0
    /\ shutdown = "no"
    /\ restarts = 0
    /\ phase = "loaded"
    /\ loadedShells = InitialShells

\* The event the source publishes while the listener is studied.
ListenerEvent == CHOOSE e \in EventPool : e.id = "tx3"

NextListener ==
    \/ StartReviewListener
    \/ SubscribeRegisters
    \/ SubscribeResolves
    \/ SubscribeRejects
    \/ \E stopOk \in BOOLEAN : StopDone(stopOk)
    \/ TimerFires
    \/ TransportFails
    \/ GracefulShutdown
    \/ \E stopOk \in BOOLEAN : ShutdownStopped(stopOk)
    \/ ShutdownSaved
    \/ ProcessExit
    \/ \E r \in Runs : Deliver(r, ListenerEvent, TRUE)
    \/ \E r \in Runs : CheckCache(r)
    \/ \E r \in Runs, outcome \in GetDappOutcomes : ResumeFetch(r, outcome)
    \/ \E r \in Runs : TaskStep(r)
    \/ \E r \in Runs : RateDone(r)

SpecListener == InitListener /\ [][NextListener]_vars

\* What the code itself schedules happens: startup goes on, an awaited
\* stopListening settles, a timer that was set fires, a shutdown that began
\* runs to the exit.  Nothing is assumed of the event source: a pending
\* subscribe may never settle and no event need arrive.
ListenerFairness ==
    /\ WF_vars(StartReviewListener)
    /\ WF_vars(\E stopOk \in BOOLEAN : StopDone(stopOk))
    /\ WF_vars(TimerFires)
    /\ WF_vars(\E stopOk \in BOOLEAN : ShutdownStopped(stopOk))
    /\ WF_vars(ShutdownSaved)
    /\ WF_vars(ProcessExit)

SpecListenerFair == InitListener /\ [][NextListener]_vars /\ ListenerFairness

\* ------------------------------------------------------- the startup spec

\* startBackendApplication from the bulk load (line 595) to the listening
\* server (line 914), over the review table as it stands at startup.
InitStartup ==
    /\ InitLoad
    /\ dbRows = InitialRows

NextStartup ==
    \/ LoadStart
    \/ \E shells \in ShellOptions, ok \in BOOLEAN : LoadResume(shells, ok)
    \/ StartReviewListener
    \/ SubscribeRegisters
    \/ SubscribeResolves
    \/ SubscribeRejects
    \/ \E stopOk \in BOOLEAN : StopDone(stopOk)
    \/ TimerFires
    \/ GracefulShutdown
    \/ \E stopOk \in BOOLEAN : ShutdownStopped(stopOk)
    \/ ShutdownSaved
    \/ ProcessExit
    \/ \E u \in LoginUsers : ProfileRead(u)

SpecStartup == InitStartup /\ [][NextStartup]_vars

\* ----------------------------------------------------------------- claims

EventIds == { e.id : e \in EventPool }

CachedIds == { allReviewsStore[i].id : i \in 1..Len(allReviewsStore) }

PersistedIds == { dbRows[i].txHash : i \in 1..Len(dbRows) }

\* C1: once a run of processNewReview has completed for an event id, every
\* step of a run started by a later delivery of that id leaves the three
\* cache stores unchanged and awards no points: no profile's points change
\* and no task award is recorded.
C1_RedeliveryIsNoOp ==
    [][ \A r \in Runs :
          (run'[r].afterCompleted /\ run'[r] # run[r])
          => /\ cacheVars' = cacheVars
             /\ \A u \in Users : userProfilesDB'[u].points = userProfilesDB[u].points
             /\ awardLog' = awardLog ]_vars

\* A redelivery after completion has itself run to its end.
C1_Witness ==
    \E r \in Runs : run[r].afterCompleted /\ run[r].pc = "done"

\* C2: every review in the cache has been written to the durable review
\* store: a review whose write failed is not cached.
C2_CacheOnlyHoldsPersisted == CachedIds \subseteq PersistedIds

\* The mean of the star ratings of reviews, to the nearest hundredth.
IsRoundedMean(avg, reviews) ==
    IF reviews = << >> THEN avg = 0
    ELSE LET n == Len(reviews)
             diff == 100 * SumStars(reviews) - avg * n
         IN  2 * diff <= n /\ -2 * diff <= n

\* C3: every entry of dappsStore has totalReviews equal to the number of
\* reviews cached for its dappId and averageRating equal to their mean
\* rounded to 2 decimals, 0 when there are none.
C3_AggregatesMatchCache ==
    \A i \in 1..Len(dappsStore) :
        LET cached == reviewsByDappStore[dappsStore[i].dappId]
        IN  /\ dappsStore[i].totalReviews = Len(cached)
            /\ IsRoundedMean(dappsStore[i].averageRating, cached)

\* C4: however two deliveries of one event id overlap, the cache holds at
\* most one review with that id and the progression engine is invoked at
\* most once for it.
C4_OneReviewPerEventId ==
    \A id \in EventIds :
        /\ Cardinality({ i \in 1..Len(allReviewsStore) : allReviewsStore[i].id = id }) <= 1
        /\ Cardinality({ r \in Runs : run[r].ev.id = id /\ run[r].progressed }) <= 1

\* C6: a run whose durable write failed performs none of the later steps:
\* the progression engine is not invoked for it and it emits neither a
\* dappUpdate nor a newReview notification.
C6_FailedWriteAborts ==
    \A r \in Runs :
        ~run[r].saveOk
        => ~run[r].progressed /\ ~run[r].emittedDapp /\ ~run[r].emittedNew

RECURSIVE SumRowStars(_, _)
SumRowStars(rows, key) ==
    IF rows = << >> THEN 0
    ELSE (IF Lower(Head(rows).dappId) = key THEN Head(rows).starRating ELSE 0)
         + SumRowStars(Tail(rows), key)

\* C7: after fetchInitialDataFromDb, whatever the stores held before,
\* dappsStore holds one entry per shell the ledger returned, in order, each
\* with the count and the rounded mean of the durable rows whose lower-cased
\* dappId is the shell's, and the review stores hold the durable rows and
\* nothing else.
C7_LoadReplacesCache ==
    phase = "loaded" =>
        /\ Len(dappsStore) = Len(loadedShells)
        /\ \A i \in 1..Len(loadedShells) :
              LET key == Lower(loadedShells[i].dappId)
                  n == Cardinality({ j \in 1..Len(dbRows) : Lower(dbRows[j].dappId) = key })
                  diff == 100 * SumRowStars(dbRows, key) - dappsStore[i].averageRating * n
              IN  /\ dappsStore[i].dappId = key
                  /\ dappsStore[i].totalReviews = n
                  /\ IF n = 0 THEN dappsStore[i].averageRating = 0
                     ELSE 2 * diff <= n /\ -2 * diff <= n
        /\ Len(allReviewsStore) = Len(dbRows)
        /\ \A j \in 1..Len(dbRows) :
              /\ allReviewsStore[j].id = dbRows[j].txHash
              /\ allReviewsStore[j].dappId = Lower(dbRows[j].dappId)
        /\ \A k \in DappIds :
              reviewsByDappStore[k] = SelectSeq(allReviewsStore, LAMBDA r : r.dappId = k)

\* A load over a non-empty prior cache that found rows spelled in upper case
\* for an entity whose prior aggregates differ from the loaded ones.
C7_Witness ==
    /\ phase = "loaded"
    /\ \E i \in 1..Len(dappsStore) : dappsStore[i].totalReviews = 3
    /\ \E j \in 1..Len(dbRows) : dbRows[j].dappId = "D1"

\* C5: for every user and every active daily task, the task's reward is
\* awarded at most once per UTC calendar day, and while the task is completed
\* for the current UTC day its currentCount does not increase.
C5_DailyTaskAwardedOnce ==
    [][ \A u \in Users, t \in TaskIds :
          /\ \A d \in Days : awardLog'[u][t][d] <= 1
          /\ ( /\ userTaskProgressStore[u][t].isCompletedThisPeriod
               /\ getUtcDateString(userTaskProgressStore[u][t].lastProgressTimestamp)
                    = getUtcDateString(now')
               /\ \E i \in 1..Len(taskDefinitionsStore) :
                     /\ taskDefinitionsStore[i].taskId = t
                     /\ taskDefinitionsStore[i].isActive
                     /\ taskDefinitionsStore[i].cadence = "DAILY" )
            => userTaskProgressStore'[u][t].currentCount
                 <= userTaskProgressStore[u][t].currentCount ]_vars

\* A user has been awarded the same daily task on two different UTC days, and
\* a task that needs two actions has been completed.
C5_Witness ==
    \E u \in Users :
        /\ \E d1, d2 \in Days : d1 # d2 /\ awardLog[u]["review"][d1] = 1
                                         /\ awardLog[u]["review"][d2] = 1
        /\ userTaskProgressStore[u]["rate"].isCompletedThisPeriod

\* The local calendar day of instant ts.
LocalDay(ts) == (ts + UtcOffset(ts)) \div HoursPerDay

\* C8: the streak update of a text review processed on its own follows the
\* reference rule: no earlier review gives streak 1, a last review exactly one
\* calendar day before today gives the previous streak plus 1, a last review
\* more than one day before today gives 1.
C8_StreakFollowsReferenceRule ==
    [][ \A r \in Runs :
          (run[r].pc = "streak" /\ run'[r].pc # "streak") =>
              LET u == run[r].ev.rater
                  before == userProfilesDB[u]
                  gap == LocalDay(now) - LocalDay(before.lastReviewTimestamp)
                  after == userProfilesDB'[u].reviewStreak
              IN  /\ before.lastReviewTimestamp = 0 => after = 1
                  /\ (before.lastReviewTimestamp > 0 /\ gap = 1)
                        => after = before.reviewStreak + 1
                  /\ (before.lastReviewTimestamp > 0 /\ gap > 1) => after = 1 ]_vars

\* The step that schedules a retry (lines 575-579).
SchedulesRetry == connectPc = "stopping" /\ connectPc' = "waiting"

\* C9: over consecutive failed subscribe attempts with no event delivered in
\* between, every scheduled delay is at most maxDelay, is not smaller than the
\* delay before it, and is twice the delay before it until that exceeds the cap.
C9_BackoffDoublesUpToCap ==
    [][ SchedulesRetry =>
          /\ retryDelay' <= maxDelay
          /\ lastDelay > 0 =>
                /\ retryDelay' >= lastDelay
                /\ retryDelay' = IF 2 * lastDelay <= maxDelay THEN 2 * lastDelay
                                 ELSE maxDelay ]_vars

\* Two retries in a row were scheduled at the cap, after the doubling reached it.
C9_Witness ==
    /\ connectPc = "waiting"
    /\ reconnectAttempts = MaxAttempts
    /\ retryDelay = maxDelay
    /\ lastDelay = maxDelay

\* C10: the delay scheduled after the first failed subscribe attempt, and
\* after the first failure that follows a delivered event, is baseDelay.
C10_FirstDelayIsBase ==
    [][ (SchedulesRetry /\ lastDelay = 0) => retryDelay' = baseDelay ]_vars

\* C11: at most one callback is registered with the event source at any time,
\* so one delivery of an event starts exactly one run of processNewReview.
C11_OneHandlerOneRun ==
    [][ /\ handlers' <= 1
        /\ Cardinality({ r \in Runs : run[r].pc = "idle" /\ run'[r].pc = "saved" }) <= 1
      ]_vars

\* C12: once gracefulShutdown has begun, connect makes no subscribe attempt
\* (a timer set earlier does not call listenToReviews) and sets no new timer.
C12_NoSubscribeAfterShutdown ==
    [][ shutdown # "no" =>
          /\ ~(connectPc # "subscribing" /\ connectPc' = "subscribing")
          /\ ~SchedulesRetry ]_vars

\* C13: when the transport of an established subscription fails, a new
\* subscribe attempt is eventually made (unless the process is shut down).
C13_ResubscribesAfterTransportLoss ==
    (connectPc = "lost") ~> (connectPc = "subscribing" \/ shutdown # "no")

\* C14: at most one run of processNewReview is in progress at any time, and
\* runs complete in the order in which their events were handed off.
C14_OneRunAtATime ==
    /\ Cardinality({ r \in Runs : run[r].pc \notin {"idle", "done", "killed"} }) <= 1
    /\ \A r \in Runs : run[r].pc = "done" => \A q \in 1..(r - 1) : run[q].pc = "done"

\* C15: no user's points are ever negative and no step lowers them.
C15_PointsNeverDecrease ==
    [][ \A u \in Users :
          /\ userProfilesDB'[u].points >= userProfilesDB[u].points
          /\ userProfilesDB'[u].points >= 0 ]_vars

\* C16: after a restart, an action of a user awards no daily task that the
\* user was already awarded on the same UTC day.
C16_CompletionSurvivesRestart ==
    [][ \A u \in Users, t \in TaskIds :
          (restarts > 0 /\ awardLog[u][t][getUtcDateString(now)] >= 1)
          => awardLog'[u][t][getUtcDateString(now)]
               = awardLog[u][t][getUtcDateString(now)] ]_vars

\* C17: once the bulk load is done the server comes to listen, whether or not
\* the subscribe call ever returns (unless the process is shut down first).
C17_ServerListensWithoutSubscribe ==
    (phase \in {"loaded", "starting"}) ~> (phase = "serving" \/ shutdown # "no")

\* C18: after a failed subscribe attempt another attempt is eventually made,
\* however many attempts have failed (unless the process is shut down).
C18_RetriesForever ==
    (connectPc = "stopping") ~> (connectPc = "subscribing" \/ shutdown # "no")

\* A new attempt is under way after MaxAttempts attempts have failed.
C18_Witness ==
    /\ connectPc = "subscribing"
    /\ reconnectAttempts = MaxAttempts
    /\ shutdown = "no"

\* C19: the bulk load replaces the review stores and dappsStore in one step:
\* no state holds the loaded review lists with the projections of before.
C19_StoresSwappedTogether ==
    [][ ( /\ phase \in {"boot", "loading"}
          /\ << allReviewsStore, reviewsByDappStore >>'
               # << allReviewsStore, reviewsByDappStore >> )
        => ( /\ phase' = "loaded"
             /\ dappsStore' = LoadedStores(loadedShells', dbRows').dapps ) ]_vars

\* A load has replaced a cache whose projections differ from the loaded ones.
C19_Witness ==
    /\ phase = "loaded"
    /\ Len(allReviewsStore) >= 2
    /\ Len(dappsStore) >= 2
    /\ \E i \in 1..Len(dappsStore) : dappsStore[i].totalReviews >= 1

\* C20: without a WebSocket provider no subscribe attempt is ever made,
\* isListenerRunning stays false, and startup goes on to the listening server.
C20_NoProviderNoListener ==
    /\ [](~wsProviderInitialized =>
            /\ connectPc = "off"
            /\ handlers = 0
            /\ ~isListenerRunning
            /\ phase \in {"loaded", "serving", "exited"})
    /\ ((~wsProviderInitialized /\ phase = "loaded") ~> (phase = "serving"))

\* The server listens although the provider was never initialised.
C20_Witness ==
    /\ ~wsProviderInitialized
    /\ phase = "serving"
    /\ shutdown = "no"

\* The three stores are what a bulk load builds from the shells it was given
\* and the review table.
CacheIsLoaded ==
    LET loaded == LoadedStores(loadedShells, dbRows)
    IN  /\ allReviewsStore = loaded.all
        /\ reviewsByDappStore = loaded.byDapp
        /\ dappsStore = loaded.dapps

\* C21: the server listens, and a read request is answered, only after
\* fetchInitialDataFromDb has completed; when the load throws the process
\* exits and no request is ever answered.
C21_NoServingWithoutLoad ==
    /\ phase \in {"loaded", "starting", "serving"} => CacheIsLoaded
    /\ (\E u \in Users : userProfilesDB[u].exists)
          => (CacheIsLoaded /\ (phase = "serving" \/ shutdown # "no"))
    /\ (phase = "exited" /\ shutdown = "no")
          => \A u \in Users : ~userProfilesDB[u].exists

\* The bulk load threw over a cache that held something: the process exited.
C21_Witness ==
    /\ phase = "exited"
    /\ shutdown = "no"
    /\ dappsStore # << >>
    /\ loadedShells = << >>

\* C22: when a run of a text review has updated the streak of a user today,
\* the streak update of another run for a different review id of that user
\* on the same calendar day, overlapping or not, leaves reviewStreak as it is.
C22_StreakOncePerDay ==
    [][ \A r \in Runs :
          ( /\ run[r].pc = "streak"
            /\ run'[r].pc # "streak"
            /\ \E q \in Runs \ {r} :
                  /\ run[q].ev.rater = run[r].ev.rater
                  /\ run[q].ev.id # run[r].ev.id
                  /\ run[q].pc \in {"bonus", "stamp", "done"}
                  /\ run[q].ev.hasText
                  /\ LocalDay(run[q].nowAt) = LocalDay(now) )
          => userProfilesDB'[run[r].ev.rater].reviewStreak
               = userProfilesDB[run[r].ev.rater].reviewStreak ]_vars

\* C23: dappsStore never holds two entries with the same dappId, however
\* handler runs that fetch a missing entity and refresh requests interleave.
C23_OneEntryPerDapp ==
    \A i, j \in 1..Len(dappsStore) :
        i # j => dappsStore[i].dappId # dappsStore[j].dappId

\* No run of processNewReview is in progress.
Quiescent == \A r \in Runs : run[r].pc \in {"idle", "done", "killed", "failed"}

\* C24: at any quiescent point the review ids cached per entity are the ids
\* the durable review table holds for it, and every entry of dappsStore has
\* the totalReviews and averageRating a fresh bulk load would compute.
C24_CacheEqualsFreshLoad ==
    Quiescent =>
        /\ \A k \in DappIds :
              { reviewsByDappStore[k][i].id : i \in 1..Len(reviewsByDappStore[k]) }
                = { dbRows[j].txHash : j \in { n \in 1..Len(dbRows) :
                                                  Lower(dbRows[n].dappId) = k } }
        /\ \A i \in 1..Len(dappsStore) :
              LET fresh == calculateDappAggregates(
                               ReviewsOfDapp(RowsToReviews(dbRows, loadedShells),
                                             dappsStore[i].dappId))
              IN  /\ dappsStore[i].totalReviews = fresh.totalReviews
                  /\ dappsStore[i].averageRating = fresh.averageRating

\* The step of run r that resumes from a getDapp which threw or returned
\* nothing (lines 444 and 455-457 leave dapp undefined).
FetchFailedStep(r) ==
    /\ run[r].pc = "fetch"
    /\ run'[r].pc # "fetch"
    /\ ~run'[r].dappFound

\* What a failed fetch does to the review lists and to the entries of
\* dappsStore: the review is cached under the placeholder name, no entry is
\* added and no entry of another entity changes.
UnresolvedReviewCached(r) ==
    LET e == run[r].ev
    IN  /\ \E i \in 1..Len(allReviewsStore') :
              /\ allReviewsStore'[i].id = e.id
              /\ allReviewsStore'[i].dappName = UnknownDapp
        /\ Len(allReviewsStore') = Len(allReviewsStore) + 1
        /\ Len(reviewsByDappStore'[e.dappId]) = Len(reviewsByDappStore[e.dappId]) + 1
        /\ Head(reviewsByDappStore'[e.dappId]).id = e.id
        /\ Head(reviewsByDappStore'[e.dappId]).dappName = UnknownDapp
        /\ Len(dappsStore') = Len(dappsStore)
        /\ \A i \in 1..Len(dappsStore) :
              dappsStore[i].dappId # e.dappId => dappsStore'[i] = dappsStore[i]

\* C25 as stated: after a failed fetch the review is cached under the
\* placeholder name, no entry is added to dappsStore, no other entity's
\* aggregate changes and no dappUpdate is emitted.
C25_UnresolvedSkipsAggregates ==
    [][ \A r \in Runs :
          FetchFailedStep(r)
          => /\ UnresolvedReviewCached(r)
             /\ ~run'[r].emittedDapp
             /\ dappsStore' = dappsStore ]_vars

\* C25 amended: as above, except that a dappUpdate is emitted, and the
\* aggregates of the entity recomputed from its cached reviews, exactly when
\* the entity was given an entry by a refresh or another run during the fetch.
C25_UnresolvedSkipsUnlessEntered ==
    [][ \A r \in Runs :
          FetchFailedStep(r)
          => LET e == run[r].ev
                 idx == FindDappIndex(dappsStore, e.dappId)
             IN  /\ UnresolvedReviewCached(r)
                 /\ run'[r].emittedDapp = (idx # 0)
                 /\ IF idx = 0 THEN dappsStore' = dappsStore
                    ELSE /\ dappsStore'[idx].totalReviews
                              = Len(reviewsByDappStore'[e.dappId])
                         /\ IsRoundedMean(dappsStore'[idx].averageRating,
                                          reviewsByDappStore'[e.dappId]) ]_vars

\* A run whose fetch failed has cached its review under the placeholder name
\* and emitted a dappUpdate for the entry a refresh or another run had pushed.
C25_Witness ==
    \E r \in Runs :
        /\ run[r].pc = "done"
        /\ run[r].progressed
        /\ ~run[r].dappFound
        /\ run[r].emittedDapp

\* C26: the step that gives an entry to an entity which has reviews cached
\* but had no entry (a later event whose fetch succeeds, or a refresh) stores
\* for it the count and the rounded mean of all reviews cached for it.
C26_ResolutionCoversCachedReviews ==
    [][ \A d \in DappIds :
          ( /\ FindDappIndex(dappsStore, d) = 0
            /\ reviewsByDappStore[d] # << >>
            /\ FindDappIndex(dappsStore', d) # 0 )
          => LET entry == dappsStore'[FindDappIndex(dappsStore', d)]
             IN  /\ entry.totalReviews = Len(reviewsByDappStore'[d])
                 /\ IsRoundedMean(entry.averageRating, reviewsByDappStore'[d]) ]_vars

\* A run cached its review while the entity had no entry, and the entity has
\* an entry now that counts reviews.
C26_Witness ==
    \E r \in Runs :
        /\ run[r].pc = "done"
        /\ run[r].progressed
        /\ ~run[r].dappFound
        /\ ~run[r].emittedDapp
        /\ \E i \in 1..Len(dappsStore) :
              /\ dappsStore[i].dappId = run[r].ev.dappId
              /\ dappsStore[i].totalReviews >= 1

\* Most recent first: no review is followed by one with a larger timestamp.
NonIncreasing(reviews) ==
    \A i \in 1..(Len(reviews) - 1) : reviews[i].timestamp >= reviews[i + 1].timestamp

\* C27: after a run has cached its review and completed, the global review
\* list and the review list of the review's entity are ordered by
\* non-increasing timestamp.
C27_ListsMostRecentFirst ==
    \A r \in Runs :
        (run[r].pc = "done" /\ run[r].progressed)
        => /\ NonIncreasing(allReviewsStore)
           /\ NonIncreasing(reviewsByDappStore[run[r].ev.dappId])

\* The entries dappsStore holds for entity d, in order.
EntriesOf(store, d) == SelectSeq(store, LAMBDA x : x.dappId = d)

\* C28: a step of a run of processNewReview for an event of entity e leaves
\* the review list and the dappsStore entries of every other entity
\* unchanged, also when the run fails or throws, and leaves the subscription
\* as it is, so that later events are still processed.
C28_OnlyTheEventsEntityChanges ==
    [][ \A r \in Runs :
          (run'[r] # run[r])
          => /\ \A d \in DappIds \ {run'[r].ev.dappId} :
                   /\ reviewsByDappStore'[d] = reviewsByDappStore[d]
                   /\ EntriesOf(dappsStore', d) = EntriesOf(dappsStore, d)
             /\ handlers' = handlers
             /\ connectPc' = connectPc
             /\ isListenerRunning' = isListenerRunning ]_vars

\* A run threw after caching its review, the review of the next event was
\* processed to the end, and both entities have their own counts.
C28_Witness ==
    /\ run[1].pc = "failed"
    /\ run[1].progressed
    /\ run[2].pc = "done"
    /\ run[2].progressed
    /\ run[2].ev.dappId # run[1].ev.dappId
    /\ \E i \in 1..Len(dappsStore) :
          dappsStore[i].dappId = "d1" /\ dappsStore[i].totalReviews = 3

\* C29: an event whose starRating is not an integer in 1..5 is neither
\* persisted nor cached: every cached review and every durable row has a
\* starRating in 1..5, and every averageRating is 0 or lies between 1 and 5.
C29_RatingsWithinRange ==
    /\ \A i \in 1..Len(allReviewsStore) : allReviewsStore[i].starRating \in 1..5
    /\ \A d \in DappIds : \A i \in 1..Len(reviewsByDappStore[d]) :
          reviewsByDappStore[d][i].starRating \in 1..5
    /\ \A j \in 1..Len(dbRows) : dbRows[j].starRating \in 1..5
    /\ \A i \in 1..Len(dappsStore) :
          \/ dappsStore[i].averageRating = 0
          \/ dappsStore[i].averageRating \in 100..500

\* C30: a step that touches the progress of a daily task whose last progress
\* is of an earlier UTC day either only resets it (a read: count 0, not
\* completed) or resets it and counts the action as the first of the day,
\* completing and awarding the task when one action is enough; progress of
\* the current UTC day keeps its count and its completion.
C30_DailyRollover ==
    [][ \A u \in Users, i \in 1..Len(taskDefinitionsStore) :
          LET task == taskDefinitionsStore[i]
              t == task.taskId
              before == userTaskProgressStore[u][t]
              after == userTaskProgressStore'[u][t]
              today == getUtcDateString(now)
          IN  task.cadence = "DAILY" =>
                /\ ( /\ getUtcDateString(before.lastProgressTimestamp) < today
                     /\ after # before )
                   => \/ /\ after.currentCount = 0
                         /\ ~after.isCompletedThisPeriod
                         /\ after.lastProgressTimestamp = before.lastProgressTimestamp
                         /\ awardLog'[u][t] = awardLog[u][t]
                      \/ /\ after.currentCount = 1
                         /\ after.lastProgressTimestamp = now
                         /\ after.isCompletedThisPeriod = (task.targetCount <= 1)
                         /\ awardLog'[u][t][today] = awardLog[u][t][today]
                               + (IF task.targetCount <= 1 THEN 1 ELSE 0)
                /\ getUtcDateString(before.lastProgressTimestamp) = today
                   => /\ after.currentCount >= before.currentCount
                      /\ before.isCompletedThisPeriod => after.isCompletedThisPeriod
      ]_vars

\* The login task was awarded on two UTC days, and a rating of each of the two
\* days left the task that needs two ratings at 1 of 2 on the second day.
C30_Witness ==
    /\ awardLog["u1"]["login"][2] = 1
    /\ awardLog["u1"]["login"][3] = 1
    /\ \A r \in Runs : run[r].pc = "done" /\ run[r].ev.rater = "u1"
    /\ getUtcDateString(userTaskProgressStore["u1"]["rate"].lastProgressTimestamp) = 3
    /\ userTaskProgressStore["u1"]["rate"].currentCount = 1
    /\ ~userTaskProgressStore["u1"]["rate"].isCompletedThisPeriod
    /\ \A d \in Days : awardLog["u1"]["rate"][d] = 0

\* The events that have been processed for entity d, as a set: the order in
\* which they were processed is not in it.
ProcessedFor(d) ==
    { e \in EventPool : /\ e.dappId = d
                        /\ \E r \in Runs : /\ run[r].pc = "done"
                                           /\ run[r].progressed
                                           /\ run[r].ev.id = e.id }

RECURSIVE StarsOf(_)
StarsOf(events) ==
    IF events = {} THEN 0
    ELSE LET e == CHOOSE x \in events : TRUE
         IN  e.starRating + StarsOf(events \ {e})

\* C31: when events are processed one after the other, the totalReviews and
\* averageRating of every entity are the count and the rounded mean of the
\* loaded rows and of the set of events processed for it, so that either
\* order of two events gives the same values.
C31_AggregatesIndependentOfOrder ==
    Quiescent =>
        \A i \in 1..Len(dappsStore) :
            LET d == dappsStore[i].dappId
                rows == { j \in 1..Len(InitialRows) : Lower(InitialRows[j].dappId) = d }
                n == Cardinality(rows) + Cardinality(ProcessedFor(d))
                sum == SumRowStars(InitialRows, d) + StarsOf(ProcessedFor(d))
                diff == 100 * sum - dappsStore[i].averageRating * n
            IN  /\ dappsStore[i].totalReviews = n
                /\ IF n = 0 THEN dappsStore[i].averageRating = 0
                   ELSE 2 * diff <= n /\ -2 * diff <= n

\* Two events of one entity with different ratings were processed, the one
\* with the lower rating last, and the entity counts both.
C31_Witness ==
    /\ Quiescent
    /\ run[1].pc = "done" /\ run[1].ev.id = "tx2"
    /\ run[2].pc = "done" /\ run[2].ev.id = "tx3"
    /\ \E i \in 1..Len(dappsStore) :
          /\ dappsStore[i].dappId = "d2"
          /\ dappsStore[i].totalReviews = 2
          /\ dappsStore[i].averageRating = 300

\* C32: the streak update of a text review fixes the bonus at
\* POINTS_STREAK_BONUS_PER_DAY times the reviewStreak it leaves, and exactly
\* that many points are then added to the rater's profile, also for a second
\* text review of the same day, which leaves the streak as it is.
C32_BonusIsStreakTimesFive ==
    [][ \A r \in Runs :
          LET u == run[r].ev.rater
          IN  /\ (run[r].pc = "streak" /\ run'[r].pc # "streak")
                 => /\ run'[r].bonus
                         = userProfilesDB'[u].reviewStreak * POINTS_STREAK_BONUS_PER_DAY
                    /\ run'[r].pc = IF run'[r].bonus > 0 THEN "bonus" ELSE "stamp"
              /\ (run[r].pc = "bonus" /\ run'[r].pc # "bonus")
                 => /\ userProfilesDB'[u].points = userProfilesDB[u].points + run[r].bonus
                    /\ userProfilesDB'[u].reviewStreak = userProfilesDB[u].reviewStreak
      ]_vars

\* Two text reviews of one user on one day, one after the other: the first
\* raised the streak to 2, the second left it, and each was paid 10 points
\* on top of the 15 and 25 points of the two daily tasks.
C32_Witness ==
    /\ \A r \in 1..2 : run[r].pc = "done" /\ run[r].ev.rater = "u1" /\ run[r].bonus = 10
    /\ run[1].ev.id # run[2].ev.id
    /\ userProfilesDB["u1"].reviewStreak = 2
    /\ userProfilesDB["u1"].points = 60

\* C33: the day difference the streak update computes is the difference of
\* the UTC calendar days of the last text review and of now, the days of the
\* daily task reset: 0 for the same UTC day and 1 for consecutive UTC days,
\* in every time zone of the server.
C33_StreakDaysAreUtcDays ==
    [][ \A r \in Runs :
          ( /\ run[r].pc = "streak"
            /\ run'[r].pc # "streak"
            /\ userProfilesDB[run[r].ev.rater].lastReviewTimestamp > 0 )
          => LET last == userProfilesDB[run[r].ev.rater].lastReviewTimestamp
                 utcGap == getUtcDateString(now) - getUtcDateString(last)
             IN  /\ utcGap = 0 => daysDifference(last, now) = 0
                 /\ utcGap = 1 => daysDifference(last, now) = 1 ]_vars

\* C34: when no write of the profile file is in flight, the file holds the
\* in-memory profile map: an older snapshot is never the last one written.
C34_FileEqualsMemoryWhenIdle ==
    pendingSaves = {} => profileFile = userProfilesDB

\* The progress entry of (u, taskId) is counted up in this step: it changes
\* otherwise than by the daily rollover.
Advanced(u, taskId) ==
    /\ userTaskProgressStore'[u][taskId] # userTaskProgressStore[u][taskId]
    /\ userTaskProgressStore'[u][taskId] #
          isDailyTaskCompletedToday(userTaskProgressStore[u][taskId])

\* The step belongs to an action of user u that tasks of this type count.
ActsOn(u, type) ==
    \/ /\ type = "DAILY_LOGIN"
       /\ login[u].pc = "tasks"
       /\ login'[u] # login[u]
    \/ /\ type = "DAILY_RATE_ANY_DAPP"
       /\ \E r \in Runs : /\ run[r].pc = "rate"
                          /\ run[r].ev.rater = u
                          /\ run'[r] # run[r]
    \/ /\ type = "DAILY_REVIEW_ANY_DAPP"
       /\ \E r \in Runs : /\ run[r].pc = "text"
                          /\ run[r].ev.rater = u
                          /\ run[r].ev.hasText
                          /\ run'[r] # run[r]

====
